---- MODULE Spec2Model ----
(***************************************************************************)
(* city17: a relay that obtains a signed playback token from the GQL API   *)
(* (through the fastly edge) and then fetches the m3u8 playlist from usher. *)
(* The model follows src/src/main.rs.  One request is in progress at a     *)
(* time: runs share no mutable state (CLIENT is immutable after start), so *)
(* a run is described by the state of its own `process` future.            *)
(*                                                                         *)
(* Text is a sequence of pieces (each piece a string); concatenation is \o. *)
(* Names and identifiers are sequences of one-character pieces.            *)
(***************************************************************************)
EXTENDS Integers, Sequences, FiniteSets, TLC

\* ---------------------------------------------------------------- bounds
MaxNameLen == 2      \* longest channel name drawn for a request
MaxBodyLen == 2      \* longest playlist response body (in bytes) drawn
MaxVodId == 10       \* VOD ids 0..MaxVodId are drawn (plus one large id)

\* ------------------------------------------------------------- alphabets
NameChars == {"F", "f", "7"}
BodyBytes == {"#", "E", "bad"}          \* "bad": a byte that is not valid text
REPLACEMENT_CHARACTER == "U+FFFD"
Digits == <<"0", "1", "2", "3", "4", "5", "6", "7", "8", "9">>

SeqsUpTo(S, n) == UNION {[1..k -> S] : k \in 0..n}

ChannelInputs == SeqsUpTo(NameChars, MaxNameLen) \ {<<>>}
VodInputs == (0..MaxVodId) \cup {123456789}
PlaylistBodies == SeqsUpTo(BodyBytes, MaxBodyLen)

\* ------------------------------------------------------ library functions
\* str::to_lowercase, character by character
LowerChar(c) == CASE c = "F" -> "f"
                  [] c = "O" -> "o"
                  [] c = "Q" -> "q"
                  [] OTHER -> c

to_lowercase(s) == [i \in 1..Len(s) |-> LowerChar(s[i])]

\* u64 / integer to_string: decimal digits, most significant first
RECURSIVE to_string(_)
to_string(n) == IF n < 10 THEN <<Digits[n + 1]>>
                ELSE to_string(n \div 10) \o <<Digits[(n % 10) + 1]>>

DigitValue(c) == CHOOSE d \in 0..9 : Digits[d + 1] = c

IsDecimal(s) == /\ Len(s) > 0
                /\ \A i \in 1..Len(s) : \E d \in 0..9 : Digits[d + 1] = s[i]

RECURSIVE ParseDecimal(_)
ParseDecimal(s) == IF Len(s) = 0 THEN 0
                   ELSE 10 * ParseDecimal(SubSeq(s, 1, Len(s) - 1)) + DigitValue(s[Len(s)])

\* reqwest Response::text: lossy decoding, malformed bytes become U+FFFD
Response_text(bytes) ==
    [i \in 1..Len(bytes) |-> IF bytes[i] = "bad" THEN REPLACEMENT_CHARACTER ELSE bytes[i]]

\* ---------------------------------------------------------------- Variables
Channel(name) == [kind |-> "Channel", d |-> name]
VOD(id) == [kind |-> "VOD", d |-> id]

Variables_data(var) == var.d

BASE == <<"https://usher.ttvnw.net/">>

Variables_get_url(var) ==
    LET endpoint == IF var.kind = "Channel"
                    THEN <<"api/channel/hls/">> \o var.d \o <<".m3u8">>
                    ELSE <<"vod/">> \o var.d \o <<".m3u8">>
    IN BASE \o endpoint

\* -------------------------------------------------------------- generate_id
IdLength == 32
IdChars == {"Q", "7"}
\* sample identifiers: 32 alphanumeric characters
GeneratedIds == {[i \in 1..IdLength |-> IF i % 2 = 1 THEN c ELSE "k"] : c \in IdChars}

\* --------------------------------------------------------------------- p
P_MAX == 9999999
PValues == {0, P_MAX}

\* ------------------------------------------------------------ token request
TWITCH_CLIENT == <<"kimne78kx3ncx6brgo4mv6wki5h1ko">>

RequestVariables_swapped(var) ==
    [isLive |-> var.kind = "VOD",
     login |-> IF var.kind = "VOD" THEN Variables_data(var) ELSE <<>>,
     isVod |-> var.kind = "Channel",
     vodID |-> IF var.kind = "Channel" THEN Variables_data(var) ELSE <<>>,
     playerType |-> <<"site">>]

\* the "variables" object of the JSON request built in get_access_token
RequestVariables(var) ==
    [isLive |-> var.kind = "Channel",
     login |-> IF var.kind = "Channel" THEN Variables_data(var) ELSE <<>>,
     isVod |-> var.kind = "VOD",
     vodID |-> IF var.kind = "VOD" THEN Variables_data(var) ELSE <<>>,
     playerType |-> <<"site">>]

\* the POST sent by get_access_token
TokenRequest(var, id) ==
    [method |-> "POST",
     url |-> <<"https://twitch.map.fastly.net/gql">>,
     headers |-> [Host |-> <<"gql.twitch.tv">>, ClientID |-> TWITCH_CLIENT, DeviceID |-> id],
     json |-> [operationName |-> <<"PlaybackAccessToken">>,
               persistedQueryVersion |-> 1,
               sha256Hash |-> <<"0828119ded1c13477966434e15800ff57ddacf13ba1911c129dc2200705b0712">>,
               variables |-> RequestVariables(var)]]

\* ------------------------------------------------------------ JSON values
JNull == [t |-> "null"]
JInvalid == [t |-> "invalid"]              \* a body that is not JSON at all
JStr(text) == [t |-> "str", v |-> text]
JNum(n) == [t |-> "num", v |-> n]
JObj(fields) == [t |-> "obj", v |-> fields]

HasField(j, k) == j.t = "obj" /\ k \in DOMAIN j.v
IsStrField(j, k) == HasField(j, k) /\ j.v[k].t = "str"
IsNumField(j, k) == HasField(j, k) /\ j.v[k].t = "num"

\* ------------------------------------------------- serde: derive(Deserialize)
STREAM_KEY == "streamPlaybackAccessToken"
VIDEO_KEY == "videoPlaybackAccessToken"

PlaybackAccessToken_decodes(j) ==
    /\ IsStrField(j, "value")
    /\ IsStrField(j, "signature")
    /\ IsStrField(j, "__typename")

PlaybackAccessToken_decode(j) ==
    [value |-> j.v["value"].v, signature |-> j.v["signature"].v,
     typename |-> j.v["__typename"].v]

\* the field is renamed, with one alias; a duplicate or a missing field is an error
Data_key(j) == IF HasField(j, STREAM_KEY) THEN STREAM_KEY ELSE VIDEO_KEY

Data_decodes(j) ==
    /\ j.t = "obj"
    /\ HasField(j, STREAM_KEY) # HasField(j, VIDEO_KEY)
    /\ PlaybackAccessToken_decodes(j.v[Data_key(j)])

Extensions_decodes(j) ==
    /\ IsNumField(j, "durationMilliseconds")
    /\ IsStrField(j, "operationName")
    /\ IsStrField(j, "requestID")

AccessTokenResponse_decodes(j) ==
    /\ HasField(j, "data") /\ Data_decodes(j.v["data"])
    /\ HasField(j, "extensions") /\ Extensions_decodes(j.v["extensions"])

AccessTokenResponse_decode(j) ==
    [data |-> [playback_access_token |->
                  PlaybackAccessToken_decode(j.v["data"].v[Data_key(j.v["data"])])],
     extensions |-> [duration_milliseconds |-> j.v["extensions"].v["durationMilliseconds"].v,
                     operation_name |-> j.v["extensions"].v["operationName"].v,
                     request_id |-> j.v["extensions"].v["requestID"].v]]

\* ---------------------------------------------------------------- Results
Ok(v) == [ok |-> TRUE, val |-> v]
Err(e) == [ok |-> FALSE, err |-> e]

\* ------------------------------------------------------------------ Error
None == <<>>
Some(x) == <<x>>

\* a reqwest::Error: its kind, whether a timeout is in its source chain, and
\* the status it carries (only errors made by error_for_status carry one)
ReqwestError(kind, timeout) == [kind |-> kind, timeout |-> timeout, status |-> None]

Error_Http(e) == [variant |-> "Http", e |-> e]
Error_Serde(e) == [variant |-> "Serde", e |-> e]

Error_display(err) == IF err.variant = "Http" THEN <<"http error">> ELSE <<"serde error">>

Error_debug(err) ==
    IF err.variant = "Http"
    THEN <<"Http(reqwest::Error { kind: ", err.e.kind, " })">>
    ELSE <<"Serde(", err.e, ")">>

Error_to_json(err, stage) ==
    [result |-> <<"error">>, stage |-> stage,
     debug |-> Error_debug(err), display |-> Error_display(err)]

\* Response::json: read the whole body, then serde_json::from_slice; both
\* failures are reqwest errors (kinds Body and Decode)
Response_json(read, body) ==
    IF read # "ok" THEN Err(ReqwestError("Body", read = "timeout"))
    ELSE IF ~AccessTokenResponse_decodes(body) THEN Err(ReqwestError("Decode", FALSE))
    ELSE Ok(AccessTokenResponse_decode(body))

\* .map_err(|e| e.into()) and `?` inside get_access_token / get_m3u8:
\* From<reqwest::Error> for Error
map_err_into(res) == IF res.ok THEN res ELSE Err(Error_Http(res.err))

\* --------------------------------------------------------- ErrorResponder
GQL == <<"GQL">>
M3U == <<"M3U">>

into_responder_swapped(res, stage) ==
    IF res.ok THEN res ELSE Err([error |-> res.err, stage |-> IF stage = GQL THEN M3U ELSE GQL])

\* ResultExt::into_responder: ErrorResponder(e, stage)
into_responder(res, stage) ==
    IF res.ok THEN res ELSE Err([error |-> res.err, stage |-> stage])

ErrorResponder_code_no_timeout(err) ==
    IF err.variant = "Http"
    THEN (IF err.e.status = None THEN 510 ELSE err.e.status[1])
    ELSE 501

\* the `code` match of ErrorResponder::respond_to
ErrorResponder_code(err) ==
    IF err.variant = "Http"
    THEN (IF err.e.timeout THEN 504
          ELSE IF err.e.status = None THEN 510 ELSE err.e.status[1])
    ELSE 501

\* the status codes rocket's Status::from_code knows
RocketStatusCodes ==
    (100..103) \cup (200..208) \cup {226} \cup (300..305) \cup {307, 308}
    \cup (400..418) \cup (421..426) \cup {428, 429, 431, 451} \cup (500..508) \cup {510, 511}

ErrorResponder_respond_to(er) ==
    LET code == ErrorResponder_code(er.error)
        json == Error_to_json(er.error, er.stage)
    IN IF code \in RocketStatusCodes
       THEN [kind |-> "error", status |-> code, headers |-> {}, body |-> json]
       ELSE [kind |-> "panic"]             \* .expect("code")

\* ---------------------------------------------------------- M3U8Responder
M3U8Responder_respond_to_truncated(m3u8) ==
    [kind |-> "m3u8", status |-> 200,
     headers |-> {<<"Cache-Control", "no-store">>,
                  <<"Content-Type", "application/vnd.apple.mpegurl">>},
     size |-> Len(m3u8),
     body |-> SubSeq(m3u8, 1, Len(m3u8) - 1)]

M3U8Responder_respond_to(m3u8) ==
    [kind |-> "m3u8", status |-> 200,
     headers |-> {<<"Cache-Control", "no-store">>,
                  <<"Content-Type", "application/vnd.apple.mpegurl">>},
     size |-> Len(m3u8),
     body |-> m3u8]

\* rocket's Responder for Result<M3U8Responder, ErrorResponder>
Respond(result) ==
    IF result.ok THEN M3U8Responder_respond_to(result.val)
    ELSE ErrorResponder_respond_to(result.err)

\* ------------------------------------------------------------ playlist query
gen_query_sig_from_value(token, p, play_session_id) ==
    << <<"player_backend", <<"mediaplayer">> >>,
       <<"playlist_include_framerate", <<"true">> >>,
       <<"reassignments_supported", <<"true">> >>,
       <<"supported_codecs", <<"vp09,avc1">> >>,
       <<"play_session_id", play_session_id>>,
       <<"cdm", <<"wv">> >>,
       <<"player_version", <<"1.4.0">> >>,
       <<"fast_bread", <<"true">> >>,
       <<"token", token.value>>,
       <<"sig", token.value>>,
       <<"allow_source", <<"true">> >>,
       <<"p", p>> >>

\* PlaybackAccessToken::gen_query
gen_query(token, p, play_session_id) ==
    << <<"player_backend", <<"mediaplayer">> >>,
       <<"playlist_include_framerate", <<"true">> >>,
       <<"reassignments_supported", <<"true">> >>,
       <<"supported_codecs", <<"vp09,avc1">> >>,
       <<"play_session_id", play_session_id>>,
       <<"cdm", <<"wv">> >>,
       <<"player_version", <<"1.4.0">> >>,
       <<"fast_bread", <<"true">> >>,
       <<"token", token.value>>,
       <<"sig", token.signature>>,
       <<"allow_source", <<"true">> >>,
       <<"p", p>> >>

\* the GET sent by get_m3u8: p is drawn from the rng, id from generate_id
PlaylistRequest(url, token, p, id) ==
    [method |-> "GET", url |-> url,
     query |-> gen_query(token, to_string(p), to_lowercase(id))]

\* ----------------------------------------------------------------- process
EmptyToken == [value |-> <<>>, signature |-> <<>>, typename |-> <<>>]

process_token_unchecked(res) ==
    IF res.ok THEN [ret |-> FALSE, token |-> res.val.data.playback_access_token]
    ELSE [ret |-> FALSE, token |-> EmptyToken]

\* line 137: get_access_token(&var).await.into_responder("GQL")?.data.playback_access_token
\* ret: the `?` returned Err(out) from process
process_token(res) ==
    LET r == into_responder(res, GQL)
    IN IF r.ok THEN [ret |-> FALSE, token |-> r.val.data.playback_access_token]
       ELSE [ret |-> TRUE, out |-> r]

process_m3u8_or_default(res) ==
    IF res.ok THEN Ok(res.val) ELSE Ok(<<>>)

\* lines 138-139: get_m3u8(..).await.into_responder("M3U")?; Ok(M3U8Responder(m3u8))
process_m3u8(res) ==
    LET r == into_responder(res, M3U)
    IN IF r.ok THEN Ok(r.val) ELSE r

\* ------------------------------------------------------------ environment
REQUEST_TIMEOUT == 7                    \* seconds; CLIENT's timeout
PhaseTimes == {1, 4}                    \* seconds one phase of a call may take
Statuses == {200, 404}                  \* statuses upstream answers with
IsSuccess(status) == status \in 200..299

TokenSamples ==
    {[value |-> <<"T">>, signature |-> <<"S">>, typename |-> <<"PlaybackAccessToken">>],
     [value |-> <<"U">>, signature |-> <<"R">>, typename |-> <<"PlaybackAccessToken">>]}

TokenJson(tok) ==
    JObj([k \in {"value", "signature", "__typename"} |->
            IF k = "value" THEN JStr(tok.value)
            ELSE IF k = "signature" THEN JStr(tok.signature) ELSE JStr(tok.typename)])

ExtensionsJson ==
    JObj([durationMilliseconds |-> JNum(40),
          operationName |-> JStr(<<"PlaybackAccessToken">>),
          requestID |-> JStr(<<"01H">>)])

DataJson(key, tokenJson) == JObj([k \in {key} |-> tokenJson])

GqlBody(data) == JObj([data |-> data, extensions |-> ExtensionsJson])

\* bodies the GQL endpoint may answer with
GoodGqlBodies ==
    {GqlBody(DataJson(STREAM_KEY, TokenJson(CHOOSE t \in TokenSamples : t.value = <<"T">>))),
     GqlBody(DataJson(VIDEO_KEY, TokenJson(CHOOSE t \in TokenSamples : t.value = <<"U">>)))}

BadGqlBodies ==
    {GqlBody(DataJson(STREAM_KEY, JNull)),                    \* token is null
     GqlBody(DataJson(VIDEO_KEY, JNull)),
     GqlBody(JObj(<<>>)),                                     \* token is absent
     GqlBody(JObj([k \in {STREAM_KEY, VIDEO_KEY} |->          \* both names at once
                     TokenJson(CHOOSE t \in TokenSamples : t.value = <<"T">>)])),
     JObj([data |-> DataJson(STREAM_KEY,                      \* extensions absent
                     TokenJson(CHOOSE t \in TokenSamples : t.value = <<"T">>))]),
     JObj([error |-> JStr(<<"Bad Request">>), status |-> JNum(400)]),
     JInvalid}

GqlBodies == GoodGqlBodies \cup BadGqlBodies

\* ------------------------------------------------------------------ state
VARIABLES
    pc,         \* where the request's `process` future is
    input,      \* the route and path segment of the request
    var,        \* the Variables value built by the route handler
    gqlReq,     \* the POST sent to the fastly edge
    gqlResp,    \* what the edge answered
    tokenRes,   \* the Result of get_access_token
    m3uReq,     \* the GET sent to usher
    m3uResp,    \* what usher answered
    m3uRes,     \* the Result of get_m3u8
    response,   \* what rocket hands to the caller
    calls,      \* the outbound calls of this run, in order
    clock       \* seconds the outbound call in flight (or last made) has taken

vars == <<pc, input, var, gqlReq, gqlResp, tokenRes, m3uReq, m3uResp, m3uRes,
          response, calls, clock>>

NoInput == [route |-> "none"]
NoVar == [kind |-> "none"]
NoRequest == [method |-> "none"]
NoAnswer == [kind |-> "none"]
Pending == [ok |-> FALSE, pending |-> TRUE]
NoResponse == [kind |-> "none"]

Init ==
    /\ pc = "idle"
    /\ input = NoInput
    /\ var = NoVar
    /\ gqlReq = NoRequest
    /\ gqlResp = NoAnswer
    /\ tokenRes = Pending
    /\ m3uReq = NoRequest
    /\ m3uResp = NoAnswer
    /\ m3uRes = Pending
    /\ response = NoResponse
    /\ calls = <<>>
    /\ clock = 0

\* process, up to the first await: get_access_token builds the request,
\* draws a Device-ID and sends the POST
process(v) ==
    /\ var' = v
    /\ \E id \in GeneratedIds : gqlReq' = TokenRequest(v, id)
    /\ calls' = <<GQL>>
    /\ clock' = 0
    /\ pc' = "gql_send"
    /\ gqlResp' = NoAnswer
    /\ tokenRes' = Pending
    /\ m3uReq' = NoRequest
    /\ m3uResp' = NoAnswer
    /\ m3uRes' = Pending
    /\ response' = NoResponse

process_live_target_raw(channel) == Channel(channel)

process_live_target(channel) == Channel(to_lowercase(channel))

process_vod_target(id) == VOD(to_string(id))

process_live ==
    /\ pc = "idle"
    /\ \E channel \in ChannelInputs :
          /\ input' = [route |-> "live", channel |-> channel]
          /\ process(process_live_target(channel))

process_vod ==
    /\ pc = "idle"
    /\ \E id \in VodInputs :
          /\ input' = [route |-> "vod", id |-> id]
          /\ process(process_vod_target(id))

\* process after get_access_token returned res: line 137, then get_m3u8 up to
\* its first await
AfterToken(res) ==
    /\ tokenRes' = res
    /\ LET t == process_token(res)
       IN IF t.ret
          THEN /\ response' = Respond(t.out)
               /\ pc' = "done"
               /\ UNCHANGED <<m3uReq, calls>>
          ELSE /\ \E p \in PValues, id \in GeneratedIds :
                     m3uReq' = PlaylistRequest(Variables_get_url(var), t.token, p, id)
               /\ calls' = Append(calls, M3U)
               /\ pc' = "m3u_send"
               /\ UNCHANGED response
    /\ UNCHANGED <<input, var, gqlReq, m3uResp, m3uRes>>

\* send().await? fails before the timeout (connection refused, reset, TLS)
get_access_token_send_err ==
    /\ pc = "gql_send"
    /\ \E t \in PhaseTimes :
          /\ t < REQUEST_TIMEOUT
          /\ clock' = t
    /\ UNCHANGED gqlResp
    /\ AfterToken(map_err_into(Err(ReqwestError("Request", FALSE))))

\* no response head within REQUEST_TIMEOUT
get_access_token_send_timeout ==
    /\ pc = "gql_send"
    /\ clock' = REQUEST_TIMEOUT
    /\ UNCHANGED gqlResp
    /\ AfterToken(map_err_into(Err(ReqwestError("Request", TRUE))))

\* send().await? yields a Response, whatever its status
get_access_token_send_ok ==
    /\ pc = "gql_send"
    /\ \E t \in PhaseTimes, status \in Statuses :
          /\ t < REQUEST_TIMEOUT
          /\ clock' = t
          /\ gqlResp' = [kind |-> "head", status |-> status]
    /\ pc' = "gql_json"
    /\ UNCHANGED <<input, var, gqlReq, tokenRes, m3uReq, m3uResp, m3uRes, response, calls>>

\* .json().await: the body arrives in time and is decoded
get_access_token_json ==
    /\ pc = "gql_json"
    /\ \E t \in PhaseTimes, body \in GqlBodies :
          /\ clock + t < REQUEST_TIMEOUT
          /\ clock' = clock + t
          /\ gqlResp' = [kind |-> "full", status |-> gqlResp.status, body |-> body]
          /\ AfterToken(map_err_into(Response_json("ok", body)))

\* .json().await: the body is cut short or does not arrive in time
get_access_token_json_err ==
    /\ pc = "gql_json"
    /\ \E t \in PhaseTimes :
          LET late == clock + t >= REQUEST_TIMEOUT
          IN /\ clock' = IF late THEN REQUEST_TIMEOUT ELSE clock + t
             /\ gqlResp' = [kind |-> "broken", status |-> gqlResp.status]
             /\ AfterToken(map_err_into(Response_json(IF late THEN "timeout" ELSE "error",
                                                       JInvalid)))

\* process after get_m3u8 returned res: lines 138-139 and the responder
AfterM3u8(res) ==
    /\ m3uRes' = res
    /\ response' = Respond(process_m3u8(res))
    /\ pc' = "done"
    /\ UNCHANGED <<input, var, gqlReq, gqlResp, tokenRes, m3uReq, calls>>

Response_text_result(read, body) ==
    IF read # "ok" THEN Err(ReqwestError("Body", read = "timeout"))
    ELSE Ok(Response_text(body))

get_m3u8_send_err ==
    /\ pc = "m3u_send"
    /\ \E t \in PhaseTimes :
          /\ t < REQUEST_TIMEOUT
          /\ clock' = t
    /\ UNCHANGED m3uResp
    /\ AfterM3u8(map_err_into(Err(ReqwestError("Request", FALSE))))

get_m3u8_send_timeout ==
    /\ pc = "m3u_send"
    /\ clock' = REQUEST_TIMEOUT
    /\ UNCHANGED m3uResp
    /\ AfterM3u8(map_err_into(Err(ReqwestError("Request", TRUE))))

get_m3u8_send_ok ==
    /\ pc = "m3u_send"
    /\ \E t \in PhaseTimes, status \in Statuses :
          /\ t < REQUEST_TIMEOUT
          /\ clock' = t
          /\ m3uResp' = [kind |-> "head", status |-> status]
    /\ pc' = "m3u_text"
    /\ UNCHANGED <<input, var, gqlReq, gqlResp, tokenRes, m3uReq, m3uRes, response, calls>>

\* .text().await: the body arrives in time
get_m3u8_text ==
    /\ pc = "m3u_text"
    /\ \E t \in PhaseTimes, body \in PlaylistBodies :
          /\ clock + t < REQUEST_TIMEOUT
          /\ clock' = clock + t
          /\ m3uResp' = [kind |-> "full", status |-> m3uResp.status, body |-> body]
          /\ AfterM3u8(map_err_into(Response_text_result("ok", body)))

get_m3u8_text_err ==
    /\ pc = "m3u_text"
    /\ \E t \in PhaseTimes :
          LET late == clock + t >= REQUEST_TIMEOUT
          IN /\ clock' = IF late THEN REQUEST_TIMEOUT ELSE clock + t
             /\ m3uResp' = [kind |-> "broken", status |-> m3uResp.status]
             /\ AfterM3u8(map_err_into(Response_text_result(IF late THEN "timeout" ELSE "error",
                                                             <<>>)))

\* rocket writes the response out; the request's state is dropped and the
\* worker takes the next request
request_done ==
    /\ pc = "done"
    /\ pc' = "idle"
    /\ input' = NoInput
    /\ var' = NoVar
    /\ gqlReq' = NoRequest
    /\ gqlResp' = NoAnswer
    /\ tokenRes' = Pending
    /\ m3uReq' = NoRequest
    /\ m3uResp' = NoAnswer
    /\ m3uRes' = Pending
    /\ response' = NoResponse
    /\ calls' = <<>>
    /\ clock' = 0

Next ==
    \/ request_done
    \/ process_live
    \/ process_vod
    \/ get_access_token_send_err
    \/ get_access_token_send_timeout
    \/ get_access_token_send_ok
    \/ get_access_token_json
    \/ get_access_token_json_err
    \/ get_m3u8_send_err
    \/ get_m3u8_send_timeout
    \/ get_m3u8_send_ok
    \/ get_m3u8_text
    \/ get_m3u8_text_err

Spec == Init /\ [][Next]_vars

\* ================================================================ properties
TokenFailed == tokenRes # Pending /\ ~tokenRes.ok
PlaylistFailed == m3uRes # Pending /\ ~m3uRes.ok
TokenRequested == gqlReq.method # "none"
PlaylistRequested == m3uReq.method # "none"
Range(f) == {f[i] : i \in DOMAIN f}
QueryValues(q, key) == {q[i][2] : i \in {j \in DOMAIN q : q[j][1] = key}}
QueryCount(q, key) == Cardinality({j \in DOMAIN q : q[j][1] = key})

\* C1: the playlist request is issued only after the token exchange of the
\* same run returned a token; when the token exchange fails, no playlist
\* request is issued in that run.
C1_PlaylistOnlyAfterToken ==
    /\ PlaylistRequested =>
          /\ tokenRes.ok
          /\ calls = <<GQL, M3U>>
          /\ gqlResp.kind = "full"
    /\ TokenFailed =>
          /\ ~PlaylistRequested
          /\ M3U \notin Range(calls)
          /\ m3uResp = NoAnswer

C1_Witness ==
    /\ pc = "done"
    /\ TokenFailed
    /\ response.kind = "error"
    /\ ~PlaylistRequested

\* C2 as stated: every failure is returned with a stage tag that is exactly
\* "token" for a failed token exchange and exactly "playlist" for a failed
\* playlist fetch, and no other stage value is emitted.
C2_StageTokenPlaylist ==
    (pc = "done" /\ (TokenFailed \/ PlaylistFailed)) =>
        /\ response.kind = "error"
        /\ response.body.stage \in {<<"token">>, <<"playlist">>}
        /\ TokenFailed => response.body.stage = <<"token">>
        /\ PlaylistFailed => response.body.stage = <<"playlist">>

\* C2 amended: every failure is returned as the structured error whose stage
\* is exactly "GQL" for a failed token exchange and exactly "M3U" for a
\* failed playlist fetch; no other stage value is emitted.
C2_StageGqlM3u ==
    /\ (pc = "done" /\ (TokenFailed \/ PlaylistFailed)) =>
          /\ response.kind = "error"
          /\ response.body.result = <<"error">>
          /\ TokenFailed => response.body.stage = <<"GQL">>
          /\ PlaylistFailed => response.body.stage = <<"M3U">>
    /\ response.kind = "error" =>
          /\ response.body.stage \in {<<"GQL">>, <<"M3U">>}
          /\ TokenFailed \/ PlaylistFailed

C2_Witness ==
    /\ pc = "done"
    /\ PlaylistFailed
    /\ response.kind = "error"
    /\ response.body.stage = <<"M3U">>

\* C3: when upstream answers either call with a non-success status, the run
\* ends in the structured error of that stage carrying upstream's status, and
\* a success response is never built from a rejection.
C3_RejectionIsError ==
    pc = "done" =>
        /\ (gqlResp.kind # "none" /\ ~IsSuccess(gqlResp.status)) =>
              /\ response.kind = "error"
              /\ response.body.stage = GQL
              /\ response.status = gqlResp.status
        /\ (m3uResp.kind # "none" /\ ~IsSuccess(m3uResp.status)) =>
              /\ response.kind = "error"
              /\ response.body.stage = M3U
              /\ response.status = m3uResp.status
        /\ response.kind = "m3u8" => IsSuccess(m3uResp.status)

\* C4: a token response delivered intact whose body does not decode into a
\* playback token fails the run at the token stage with the decode kind of
\* error (not the transport kind) and with a status code that differs from
\* the timeout code and from the code of the other transport failures.
C4_DecodeErrorKind ==
    (pc = "done" /\ gqlResp.kind = "full" /\ ~AccessTokenResponse_decodes(gqlResp.body)) =>
        /\ response.kind = "error"
        /\ response.body.stage = GQL
        /\ tokenRes.err.variant = "Serde"
        /\ response.status # ErrorResponder_code(Error_Http(ReqwestError("Request", TRUE)))
        /\ response.status # ErrorResponder_code(Error_Http(ReqwestError("Request", FALSE)))

\* C5: a call that runs into the 7 second timeout fails the run with the
\* transport error whose timeout flag is set, tagged with the stage of that
\* call, and the caller's status is the timeout code, which no failure
\* without a timeout gets.
C5_Timeout ==
    pc = "done" =>
        /\ clock >= REQUEST_TIMEOUT =>
              LET res == IF Len(calls) = 1 THEN tokenRes ELSE m3uRes
              IN /\ ~res.ok
                 /\ res.err.variant = "Http"
                 /\ res.err.e.timeout
                 /\ response.kind = "error"
                 /\ response.body.stage = calls[Len(calls)]
                 /\ response.body.display = <<"http error">>
                 /\ response.status = 504
        /\ (response.kind = "error" /\ clock < REQUEST_TIMEOUT) => response.status # 504

C5_Witness ==
    /\ pc = "done"
    /\ clock >= REQUEST_TIMEOUT
    /\ calls = <<GQL, M3U>>
    /\ response.kind = "error"

\* C6: a run makes at most one token request and then at most one playlist
\* request; the first failure ends the run with that failure as its result.
C6_SingleAttempt ==
    /\ calls \in {<<>>, <<GQL>>, <<GQL, M3U>>}
    /\ TokenFailed =>
          /\ pc = "done"
          /\ calls = <<GQL>>
          /\ response.kind = "error"
          /\ response.body.debug = Error_debug(tokenRes.err)
    /\ PlaylistFailed =>
          /\ pc = "done"
          /\ calls = <<GQL, M3U>>
          /\ response.kind = "error"
          /\ response.body.debug = Error_debug(m3uRes.err)

C6_Witness ==
    /\ pc = "done"
    /\ PlaylistFailed
    /\ Len(calls) = 2
    /\ ~m3uRes.err.e.timeout

\* C7: the token request has exactly one of isLive / isVod true; a Channel
\* target gives isLive, login = the name and an empty vodID; a Video target
\* gives isVod, vodID = the id and an empty login.
C7_RequestVariables ==
    TokenRequested =>
        LET v == gqlReq.json.variables
        IN /\ v.isLive # v.isVod
           /\ input.route = "live" =>
                 /\ var.kind = "Channel"
                 /\ v.isLive /\ v.login = var.d /\ v.vodID = <<>>
           /\ input.route = "vod" =>
                 /\ var = VOD(to_string(input.id))
                 /\ v.isVod /\ v.vodID = var.d /\ v.login = <<>>

C7_Witness ==
    /\ TokenRequested
    /\ input.route = "vod"
    /\ gqlReq.json.variables.vodID = <<"1", "0">>

\* C8: a channel name and its lower-cased form give the same login in the
\* token request and the same playlist URL, .../api/channel/hls/<lower>.m3u8.
C8_CaseNormalized ==
    (TokenRequested /\ input.route = "live") =>
        LET lower == to_lowercase(input.channel)
            other == process_live_target(lower)
            url == BASE \o <<"api/channel/hls/">> \o lower \o <<".m3u8">>
        IN /\ gqlReq.json.variables.login = lower
           /\ gqlReq.json.variables.login = RequestVariables(other).login
           /\ Variables_get_url(var) = Variables_get_url(other)
           /\ Variables_get_url(var) = url
           /\ PlaylistRequested => m3uReq.url = url

C8_Witness ==
    /\ PlaylistRequested
    /\ input.route = "live"
    /\ input.channel = <<"F", "7">>
    /\ m3uReq.url = <<"https://usher.ttvnw.net/", "api/channel/hls/", "f", "7", ".m3u8">>

\* C9: when both stages succeed the caller gets exactly the text of the
\* upstream playlist response body, for Channel and Video targets alike.
C9_PlaylistVerbatim ==
    (pc = "done" /\ tokenRes.ok /\ m3uRes.ok) =>
        /\ m3uResp.kind = "full"
        /\ response.kind = "m3u8"
        /\ response.body = Response_text(m3uResp.body)
        /\ response.size = Len(response.body)
        /\ "bad" \notin Range(m3uResp.body) => response.body = m3uResp.body

C9_Witness ==
    /\ pc = "done"
    /\ var.kind = "VOD"
    /\ response.kind = "m3u8"
    /\ response.body = <<"#", "E">>

\* C10: the playlist request has exactly twelve query parameters; token and
\* sig are the value and signature of the token this run's exchange returned,
\* allow_source is true and p is the decimal form of an integer in 0..9999999.
C10_Query ==
    PlaylistRequested =>
        LET q == m3uReq.query
            tok == tokenRes.val.data.playback_access_token
        IN /\ Len(q) = 12
           /\ \A i \in DOMAIN q : QueryCount(q, q[i][1]) = 1
           /\ QueryValues(q, "token") = {tok.value}
           /\ QueryValues(q, "sig") = {tok.signature}
           /\ QueryValues(q, "allow_source") = {<<"true">>}
           /\ QueryCount(q, "p") = 1
           /\ \A pv \in QueryValues(q, "p") :
                 /\ IsDecimal(pv)
                 /\ ParseDecimal(pv) \in 0..P_MAX
                 /\ to_string(ParseDecimal(pv)) = pv

C10_Witness ==
    /\ PlaylistRequested
    /\ QueryValues(m3uReq.query, "token") = {<<"U">>}
    /\ QueryValues(m3uReq.query, "sig") = {<<"R">>}
    /\ QueryValues(m3uReq.query, "p") = {<<"9", "9", "9", "9", "9", "9", "9">>}

====
